---- MODULE Spec2Model ----
(***************************************************************************)
(* Gundogs C2 (streamlit_app.py): the suffix-tag protocol and the session  *)
(* state machine around it.                                                *)
(*                                                                         *)
(* Text is a sequence of tokens.  A token is either one punctuation        *)
(* character the regular expressions of the program look at ("[", "]",     *)
(* ":", ",", "=", " ", newline, a double quote, "**") or a word that       *)
(* contains none of them.  Joining the tokens gives the Python string.     *)
(***************************************************************************)
EXTENDS Integers, Sequences, FiniteSets, TLC

\* ------------------------------------------------------------------ bounds
\* total number of model calls (get_dm_response) explored
MaxTurns == 2

\* ------------------------------------------------------- string utilities
NL == "\n"
QUOTE == "\""

Min(S) == CHOOSE x \in S : \A y \in S : x <= y

\* s[i..] (empty when i is past the end)
Tail_(s, i) == IF i > Len(s) THEN <<>> ELSE SubSeq(s, i, Len(s))

\* does the literal p occur in s at position i
At(s, i, p) == /\ i >= 1
               /\ i + Len(p) - 1 <= Len(s)
               /\ SubSeq(s, i, i + Len(p) - 1) = p

\* first index >= i holding a token of T, 0 when there is none
FirstIn(s, i, T) ==
    LET I == {j \in i..Len(s) : s[j] \in T}
    IN IF I = {} THEN 0 ELSE Min(I)

IsSpace(t) == t \in {" ", NL}

\* str.strip(): drop leading and trailing whitespace
Strip(s) ==
    LET I == {j \in 1..Len(s) : ~IsSpace(s[j])}
    IN IF I = {} THEN <<>>
       ELSE SubSeq(s, Min(I), CHOOSE x \in I : \A y \in I : y <= x)

\* str.strip(chars) for a one-character argument
StripChar(s, c) ==
    LET I == {j \in 1..Len(s) : s[j] # c}
    IN IF I = {} THEN <<>>
       ELSE SubSeq(s, Min(I), CHOOSE x \in I : \A y \in I : y <= x)

\* str.replace(c, "")
RECURSIVE Remove(_, _)
Remove(s, c) ==
    IF s = <<>> THEN <<>>
    ELSE IF Head(s) = c THEN Remove(Tail(s), c)
    ELSE <<Head(s)>> \o Remove(Tail(s), c)

\* str.split(sep): the pieces between the non-overlapping occurrences of sep
RECURSIVE Split(_, _)
Split(s, sep) ==
    LET I == {j \in 1..Len(s) : At(s, j, sep)}
    IN IF I = {} THEN <<s>>
       ELSE LET j == Min(I)
            IN <<SubSeq(s, 1, j - 1)>> \o Split(Tail_(s, j + Len(sep)), sep)

\* str.lower() on the words whose case the program compares
Lower(t) ==
    IF t \in {"Mission Complete: Assets in Transit",
              "MISSION COMPLETE: ASSETS IN TRANSIT",
              "mission complete: assets in transit"}
    THEN "mission complete: assets in transit"
    ELSE t

\* ------------------------------------------------------ mission_data.xml
\* Python strings the program compares are token sequences too
SAM == <<"SAM">>
DAVE == <<"DAVE">>
MIKE == <<"MIKE">>
InsertionPoint == <<"Insertion Point">>
Dockside == <<"Dockside">>

None == "None"

\* load_mission: poi id -> name (coords, image and intel are display only)
MISSION_DATA ==
    [pid \in {"insertion_point", "dockside"} |->
        [name |-> IF pid = "dockside" THEN Dockside ELSE InsertionPoint]]

\* get_initial_objectives: task id -> (status.lower() == 'true')
InitialObjectives == [o \in {"obj_a", "obj_b"} |-> FALSE]

\* the words of the model vocabulary that match obj_\w+
ObjWords == {"obj_a", "obj_b", "obj_x"}

\* dict item assignment d[k] = v
Put(d, k, v) == [x \in DOMAIN d \cup {k} |-> IF x = k THEN v ELSE d[x]]

\* ------------------------------------------------- A. location parsing
\* re: \[LOC_DATA: (SAM=[^,]+, DAVE=[^,]+, MIKE=[^\]]+)\]  matched at i;
\* the result is group(1), <<>> when the pattern does not match at i
LocMatchAt(s, i) ==
    IF ~At(s, i, <<"[", "LOC_DATA", ":", " ", "SAM", "=">>) THEN <<>>
    ELSE
    LET a  == i + 6
        c1 == FirstIn(s, a, {","})
    IN IF c1 <= a \/ ~At(s, c1, <<",", " ", "DAVE", "=">>) THEN <<>>
       ELSE
       LET b  == c1 + 4
           c2 == FirstIn(s, b, {","})
       IN IF c2 <= b \/ ~At(s, c2, <<",", " ", "MIKE", "=">>) THEN <<>>
          ELSE
          LET m == c2 + 4
              e == FirstIn(s, m, {"]"})
          IN IF e <= m THEN <<>> ELSE SubSeq(s, i + 4, e - 1)

\* re.search: the leftmost match
LocSearch(s) ==
    LET I == {i \in 1..Len(s) : LocMatchAt(s, i) # <<>>}
    IN IF I = {} THEN <<>> ELSE LocMatchAt(s, Min(I))

\* for pair in group.split(", "): unit, loc = pair.split("=");
\*     locations[unit] = loc.strip()
\* The unpacking raises ValueError unless the pair has exactly one "=";
\* the assignments made before it stay.
RECURSIVE ApplyPairs(_, _)
ApplyPairs(locs, pairs) ==
    IF pairs = <<>> THEN [locations |-> locs, raised |-> FALSE]
    ELSE LET parts == Split(Head(pairs), <<"=">>)
         IN IF Len(parts) # 2 THEN [locations |-> locs, raised |-> TRUE]
            ELSE ApplyPairs(Put(locs, parts[1], Strip(parts[2])), Tail(pairs))

ParseLocations(locs, text) ==
    LET g == LocSearch(text)
    IN IF g = <<>> THEN [locations |-> locs, raised |-> FALSE]
       ELSE ApplyPairs(locs, Split(g, <<",", " ">>))

\* ------------------------------------------------ B. objective parsing
\* re.findall(\[OBJ_DATA: (obj_\w+)=TRUE\]): the ids, left to right
RECURSIVE ObjFindAll(_)
ObjFindAll(s) ==
    LET I == {i \in 1..Len(s) :
                /\ At(s, i, <<"[", "OBJ_DATA", ":", " ">>)
                /\ At(s, i + 5, <<"=", "TRUE", "]">>)
                /\ s[i + 4] \in ObjWords}
    IN IF I = {} THEN <<>>
       ELSE LET i == Min(I)
            IN <<s[i + 4]>> \o ObjFindAll(Tail_(s, i + 8))

\* a variant that inverts the flag of every known id it meets
RECURSIVE ApplyObjectives_Toggle(_, _, _)
ApplyObjectives_Toggle(objs, score, ids) ==
    IF ids = <<>> THEN [objectives |-> objs, efficiency_score |-> score]
    ELSE LET id == Head(ids)
         IN IF id \in DOMAIN objs
            THEN ApplyObjectives_Toggle([objs EXCEPT ![id] = ~objs[id]],
                                        score + 150, Tail(ids))
            ELSE ApplyObjectives_Toggle(objs, score, Tail(ids))

\* the loop over obj_data_matches: flip a known, still false objective
\* and add the bonus
RECURSIVE ApplyObjectives(_, _, _)
ApplyObjectives(objs, score, ids) ==
    IF ids = <<>> THEN [objectives |-> objs, efficiency_score |-> score]
    ELSE LET id == Head(ids)
         IN IF id \in DOMAIN objs /\ ~objs[id]
            THEN ApplyObjectives([objs EXCEPT ![id] = TRUE], score + 150,
                                 Tail(ids))
            ELSE ApplyObjectives(objs, score, Tail(ids))

\* ----------------------------------------------------- win trigger
\* win_trigger.lower() in response_text.lower()
HasTrigger(s) ==
    \E i \in 1..Len(s) : Lower(s[i]) = "mission complete: assets in transit"

\* ------------------------------------------------- D. clean and parse
\* re.sub(\[(LOC_DATA|OBJ_DATA):.*?\], ""): "." does not match a newline,
\* so a tag is removed when its "]" comes before the next newline
RECURSIVE SubTags(_)
SubTags(s) ==
    IF s = <<>> THEN <<>>
    ELSE LET e  == FirstIn(s, 4, {"]"})
             nl == FirstIn(s, 4, {NL})
         IN IF /\ Len(s) >= 4
               /\ s[1] = "[" /\ s[2] \in {"LOC_DATA", "OBJ_DATA"} /\ s[3] = ":"
               /\ e # 0 /\ (nl = 0 \/ e < nl)
            THEN SubTags(Tail_(s, e + 1))
            ELSE <<Head(s)>> \o SubTags(Tail(s))

CleanResponse(text) == Strip(SubTags(text))

\* parse_operative_dialogue:
\* (SAM|DAVE|MIKE):\s*(.*?)(?=\s*(?:SAM|DAVE|MIKE):|$) with re.DOTALL
IsSpeaker(s, i) == i + 1 <= Len(s) /\ s[i] \in {"SAM", "DAVE", "MIKE"}
                                   /\ s[i + 1] = ":"

\* the position where the lazy group stops: the first p >= from with only
\* whitespace between p and the next speaker label, or the end of the text
SegmentEnd(s, from) ==
    Min({p \in from..(Len(s) + 1) :
            \/ p = Len(s) + 1
            \/ \E q \in p..Len(s) :
                 /\ IsSpeaker(s, q)
                 /\ \A k \in p..(q - 1) : IsSpace(s[k])})

CleanMessage(msg) ==
    StripChar(StripChar(Remove(Strip(msg), "**"), QUOTE), "'")

RECURSIVE Segments(_)
Segments(s) ==
    LET I == {i \in 1..Len(s) : IsSpeaker(s, i)}
    IN IF I = {} THEN <<>>
       ELSE LET i  == Min(I)
                ws == {j \in (i + 2)..(Len(s) + 1) :
                         \A k \in (i + 2)..(j - 1) : IsSpace(s[k])}
                b  == CHOOSE j \in ws : \A k \in ws : k <= j
                p  == SegmentEnd(s, b)
            IN <<[name |-> s[i], msg |-> SubSeq(s, b, p - 1)]>>
               \o Segments(Tail_(s, p))

RECURSIVE ToDict(_, _)
ToDict(d, segs) ==
    IF segs = <<>> THEN d
    ELSE ToDict(Put(d, Head(segs).name, CleanMessage(Head(segs).msg)),
                Tail(segs))

parse_operative_dialogue(text) == ToDict(<<>>, Segments(text))

\* ------------------------------------------------------- A1. discovery
InSeq(x, q) == \E i \in 1..Len(q) : q[i] = x

\* next((pid for pid, info in MISSION_DATA.items()
\*       if info['name'] == loc_name), None)
PoiId(loc_name) ==
    IF \E pid \in DOMAIN MISSION_DATA : MISSION_DATA[pid].name = loc_name
    THEN CHOOSE pid \in DOMAIN MISSION_DATA : MISSION_DATA[pid].name = loc_name
    ELSE None

\* a log entry carries its role, the Python type of its content
\* (isinstance(content, dict) in the comms feed) and the content
recon_msg(loc_name) ==
    [role |-> "assistant", type |-> "str",
     content |-> <<"RECON UPLINK", ":", " ">> \o loc_name]

RECURSIVE SetToSeq(_)
SetToSeq(S) ==
    IF S = {} THEN <<>>
    ELSE LET x == CHOOSE y \in S : TRUE IN <<x>> \o SetToSeq(S \ {x})

\* locations.items(): the three agents in insertion order, then the keys
\* that were added later
Units(locs) ==
    SelectSeq(<<SAM, DAVE, MIKE>>, LAMBDA u : u \in DOMAIN locs)
        \o SetToSeq(DOMAIN locs \ {SAM, DAVE, MIKE})

\* a variant without the "not in discovered_locations" test
RECURSIVE Discover_NoGuard(_, _, _, _)
Discover_NoGuard(locs, units, disc, msgs) ==
    IF units = <<>> THEN [discovered_locations |-> disc, messages |-> msgs]
    ELSE LET loc_name == locs[Head(units)]
             target_poi_id == PoiId(loc_name)
         IN IF target_poi_id # None
            THEN Discover_NoGuard(locs, Tail(units),
                                  Append(disc, target_poi_id),
                                  Append(msgs, recon_msg(loc_name)))
            ELSE Discover_NoGuard(locs, Tail(units), disc, msgs)

RECURSIVE Discover(_, _, _, _)
Discover(locs, units, disc, msgs) ==
    IF units = <<>> THEN [discovered_locations |-> disc, messages |-> msgs]
    ELSE LET loc_name == locs[Head(units)]
             target_poi_id == PoiId(loc_name)
         IN IF target_poi_id # None /\ ~InSeq(target_poi_id, disc)
            THEN Discover(locs, Tail(units), Append(disc, target_poi_id),
                          Append(msgs, recon_msg(loc_name)))
            ELSE Discover(locs, Tail(units), disc, msgs)

\* ------------------------------------------------------ get_dm_response
\* s: the session fields the function reads and writes; out: what the
\* backend does, [fail |-> "none" | "sys" | "prompt", text |-> the reply].
\* The result is the session after the call and the exception that ended
\* it (None when it returned).
squad_msg(clean_response) ==
    [role |-> "assistant", type |-> "dict",
     content |-> parse_operative_dialogue(clean_response),
     raw_text |-> clean_response]

get_dm_response(s, out) ==
    LET cs0 == IF s.chat_session = None
               THEN (IF out.fail = "sys" THEN "NoSysInstr" ELSE "Ready")
               ELSE s.chat_session
    IN IF out.fail # "none" /\ (out.fail = "prompt" \/ s.chat_session = None)
       THEN [s EXCEPT !.chat_session = cs0] @@
            [raised |-> "BackendError", response_text |-> <<>>]
       ELSE
       LET A == ParseLocations(s.locations, out.text)
       IN IF A.raised
          THEN [s EXCEPT !.chat_session = cs0, !.locations = A.locations] @@
               [raised |-> "ValueError", response_text |-> out.text]
          ELSE
          LET A1  == Discover(A.locations, Units(A.locations),
                              s.discovered_locations, s.messages)
              B   == ApplyObjectives(s.objectives, s.efficiency_score,
                                     ObjFindAll(out.text))
              win == HasTrigger(out.text)
          IN [chat_session |-> cs0,
              locations |-> A.locations,
              discovered_locations |-> A1.discovered_locations,
              objectives |-> B.objectives,
              efficiency_score |-> B.efficiency_score,
              mission_time |-> s.mission_time,
              time_elapsed |-> IF win THEN 60 - s.mission_time
                               ELSE s.time_elapsed,
              mission_complete |-> IF win THEN TRUE ELSE s.mission_complete,
              messages |-> Append(A1.messages,
                                  squad_msg(CleanResponse(out.text))),
              raised |-> None,
              response_text |-> out.text]

\* ----------------------------------------------------------------- state
Users == {"peter", "frank"}

VARIABLES
    authentication_status,  \* st.session_state["authentication_status"]
    username,               \* st.session_state["username"]
    active_user,            \* None while the key is absent
    auto_resume_attempted,  \* FALSE while the key is absent
    objectives, mission_started, mission_time, messages, chat_session,
    efficiency_score, locations, discovered_locations,
    mission_complete,       \* FALSE while the key is absent
    time_elapsed,           \* 0 while the key is absent (read with .get(.., 0))
    aar_report,             \* "aar_report" in st.session_state
    db,                     \* Firestore collection mission_states, by user
    pc,                     \* position of the script run, "idle" between runs
    widget,                 \* the widget that triggered the current run
    response_text,          \* the reply received by the last model call
    error,                  \* the exception that ended the last run, or None
    turns,                  \* model calls made so far
    held,                   \* history, kept when held.on: per identity, the
                            \* snapshot fields its session held after its
                            \* last completed turn
    audit                   \* audit variant: the stored readiness scores and
                            \* the last [SCORE: v] tag processed

theater == <<objectives, mission_started, mission_time, messages,
             chat_session, efficiency_score, locations, discovered_locations,
             mission_complete, time_elapsed, aar_report,
             auto_resume_attempted>>
auth == <<authentication_status, username>>
vars == <<authentication_status, username, active_user,
          auto_resume_attempted, objectives, mission_started, mission_time,
          messages, chat_session, efficiency_score, locations,
          discovered_locations, mission_complete, time_elapsed, aar_report,
          db, pc, widget, response_text, error, turns, held, audit>>

InitialLocations ==
    [u \in {SAM, DAVE, MIKE} |-> InsertionPoint]

NoDoc == [exists |-> FALSE, data |-> <<>>]

\* no turn of the identity has completed since its last abort
NoHeld == [turned |-> FALSE, data |-> <<>>]
History(on) == [on |-> on, last |-> [u \in Users |-> NoHeld]]

\* the audit variant at rest: criterion groups, scores in tenths, no tag
Groups == {"csf_1", "csf_2"}
Scores == 0..10
NoTag == [group |-> None, value |-> 0, prior |-> 0]
NoAudit == [scores |-> [g \in Groups |-> 0], tag |-> NoTag]

\* the initialisation when the scrub leaves the dialogue log behind
FreshTheater_KeepLog ==
    /\ objectives' = InitialObjectives
    /\ mission_started' = FALSE
    /\ mission_time' = 60
    /\ messages' = messages
    /\ chat_session' = None
    /\ efficiency_score' = 1000
    /\ locations' = InitialLocations
    /\ discovered_locations' = <<>>
    /\ mission_complete' = FALSE
    /\ time_elapsed' = 0
    /\ aar_report' = FALSE
    /\ auto_resume_attempted' = FALSE

\* lines 122-141 on a session that holds none of the keys (a new session,
\* or the run that follows st.session_state.clear() or the scrub)
FreshTheater ==
    /\ objectives' = InitialObjectives
    /\ mission_started' = FALSE
    /\ mission_time' = 60
    /\ messages' = <<>>
    /\ chat_session' = None
    /\ efficiency_score' = 1000
    /\ locations' = InitialLocations
    /\ discovered_locations' = <<>>
    /\ mission_complete' = FALSE
    /\ time_elapsed' = 0
    /\ aar_report' = FALSE
    /\ auto_resume_attempted' = FALSE

\* the state after construction, over a store d, with the history h
Boot(d, h) ==
    /\ authentication_status = FALSE
    /\ username = None
    /\ active_user = None
    /\ auto_resume_attempted = FALSE
    /\ objectives = InitialObjectives
    /\ mission_started = FALSE
    /\ mission_time = 60
    /\ messages = <<>>
    /\ chat_session = None
    /\ efficiency_score = 1000
    /\ locations = InitialLocations
    /\ discovered_locations = <<>>
    /\ mission_complete = FALSE
    /\ time_elapsed = 0
    /\ aar_report = FALSE
    /\ db = d
    /\ pc = "idle"
    /\ widget = [name |-> None, prompt |-> <<>>]
    /\ response_text = <<>>
    /\ error = None
    /\ turns = 0
    /\ held = h
    /\ audit = NoAudit

Init == Boot([u \in Users |-> NoDoc], History(FALSE))

\* the session fields get_dm_response works on
S == [chat_session |-> chat_session, locations |-> locations,
      discovered_locations |-> discovered_locations,
      objectives |-> objectives, efficiency_score |-> efficiency_score,
      mission_time |-> mission_time, time_elapsed |-> time_elapsed,
      mission_complete |-> mission_complete, messages |-> messages]

\* write the result of get_dm_response back
Commit(r) ==
    /\ chat_session' = r.chat_session
    /\ locations' = r.locations
    /\ discovered_locations' = r.discovered_locations
    /\ objectives' = r.objectives
    /\ efficiency_score' = r.efficiency_score
    /\ mission_time' = r.mission_time
    /\ time_elapsed' = r.time_elapsed
    /\ mission_complete' = r.mission_complete
    /\ messages' = r.messages
    /\ response_text' = r.response_text
    /\ turns' = turns + 1
    /\ held' = IF held.on /\ r.raised = None
               THEN [held EXCEPT !.last[active_user] =
                       [turned |-> TRUE,
                        data |-> [messages |-> r.messages,
                                  locations |-> r.locations,
                                  objectives |-> r.objectives,
                                  mission_time |-> r.mission_time]]]
               ELSE held

\* ------------------------------------------------- the replies explored
IP == InsertionPoint
SP == <<" ">>
Hi == <<"SAM", ":", " ", "Hi">>

LocBlock(a, b, c) ==
    <<"[", "LOC_DATA", ":", " ", "SAM", "=">> \o a
        \o <<",", " ", "DAVE", "=">> \o b
        \o <<",", " ", "MIKE", "=">> \o c \o <<"]">>

ObjTag(id, v) == <<"[", "OBJ_DATA", ":", " ", id, "=", v, "]">>

\* the raw text of the spec's cleaning example
RExample == Hi \o SP \o LocBlock(Dockside, IP, IP) \o SP
               \o ObjTag("obj_a", "TRUE")
RPlain   == Hi
RTwice   == Hi \o SP \o ObjTag("obj_a", "TRUE") \o SP
               \o ObjTag("obj_a", "TRUE")
RUnknown == Hi \o SP \o ObjTag("obj_x", "TRUE")
RFalse   == Hi \o SP \o ObjTag("obj_a", "FALSE")
RObjB    == Hi \o SP \o LocBlock(IP, IP, IP) \o SP \o ObjTag("obj_b", "TRUE")
RWin     == <<"SAM", ":", " ", "MISSION COMPLETE: ASSETS IN TRANSIT">>
\* MIKE's value holds a comma
RComma   == Hi \o SP
               \o LocBlock(Dockside, Dockside, <<"Dockside", ",", " ", "Colon">>)
               \o SP \o ObjTag("obj_x", "TRUE")
\* an extra pair after MIKE's value
RExtra   == Hi \o SP
               \o LocBlock(IP, IP, <<"Dockside", ",", " ", "BOB", "=", "Dockside">>)
\* a location value holds "="
REquals  == Hi \o SP \o LocBlock(Dockside, <<"Dock", "=", "side">>, IP)
\* the block is closed on the next line
RNewline == Hi \o SP \o LocBlock(Dockside, IP, IP \o <<NL>>)
\* a well-meant reply whose location block does not unpack
RWinBad  == <<"SAM", ":", " ", "Mission Complete: Assets in Transit", " ">>
               \o LocBlock(IP, IP, <<"Dockside", ",", " ", "Colon">>) \o SP
               \o ObjTag("obj_b", "TRUE")

Responses == {RExample, RPlain, RTwice, RUnknown, RFalse, RObjB, RWin,
              RComma, RExtra, REquals, RNewline, RWinBad}

\* what a model call can do: reply, or fail while sending the system
\* instruction or the prompt
Outcomes ==
    {[fail |-> "none", text |-> r] : r \in Responses}
        \cup {[fail |-> f, text |-> <<>>] : f \in {"sys", "prompt"}}

Prompts == {<<"go">>, <<"VALHALLA">>}

\* prompt.upper()
Upper(t) == IF t \in {"VALHALLA", "valhalla"} THEN "VALHALLA" ELSE t

W(name) == [name |-> name, prompt |-> <<>>]
NoWidget == W(None)
Widgets ==
    {W(n) : n \in {None, "logout", "abort", "redeploy", "start"}}
        \cup {[name |-> "chat", prompt |-> p] : p \in Prompts}

\* the widgets the page of the last run shows; NoWidget stands for the
\* dossier radio, which starts a run that no button handles
Available ==
    {W("logout"), W("abort"), NoWidget}
        \cup (IF mission_complete /\ aar_report THEN {W("redeploy")} ELSE {})
        \cup (IF ~mission_started THEN {W("start")} ELSE {})
        \cup (IF mission_started /\ (mission_complete => aar_report)
              THEN {[name |-> "chat", prompt |-> p] : p \in Prompts}
              ELSE {})

\* ------------------------------------------------------- persistence
Get(d, k, default) == IF k \in DOMAIN d THEN d[k] ELSE default

\* DocumentReference.set(data, merge=True): the fields written replace the
\* stored ones, map fields are merged key by key, other fields are kept
MapFields == {"unit_data", "objectives"}
Merge(old, new) ==
    [k \in DOMAIN old \cup DOMAIN new |->
        IF k \notin DOMAIN new THEN old[k]
        ELSE IF k \in MapFields /\ k \in DOMAIN old
             THEN [x \in DOMAIN old[k] \cup DOMAIN new[k] |->
                     IF x \in DOMAIN new[k] THEN new[k][x] ELSE old[k][x]]
             ELSE new[k]]

SetMerge(doc, data) ==
    [exists |-> TRUE, data |-> Merge(doc.data, data)]

\* save_mission_state: the document written
save_data ==
    [username |-> username, mission_id |-> "panama",
     chat_history |-> messages, unit_data |-> locations,
     objectives |-> objectives, mission_time |-> mission_time]

\* --------------------------------------------------------------- actions
\* st.session_state.clear() followed by the rerun that shows the login page
ClearSession ==
    /\ FreshTheater
    /\ authentication_status' = FALSE
    /\ username' = None
    /\ active_user' = None
    /\ pc' = "idle"
    /\ widget' = NoWidget

\* lines 460-477 (and 452-458): a successful login or enlistment
Login(u) ==
    /\ pc = "idle"
    /\ ~authentication_status
    /\ authentication_status' = TRUE
    /\ username' = u
    /\ pc' = "rerun"
    /\ widget' = NoWidget
    /\ error' = None
    /\ response_text' = <<>>
    /\ UNCHANGED <<active_user, theater, db, turns, held, audit>>

\* the blocks of the tactical UI in script order, and whether a block does
\* something in a run triggered by widget w (its condition in the script)
Blocks == <<"sidebar", "main", "staging", "start", "input", "save">>

Acts(b, w, complete, aar, msgs, started) ==
    CASE b = "sidebar" -> w.name \in {"logout", "abort"}
      [] b = "main"    -> complete /\ (~aar \/ w = W("redeploy"))
      [] b = "staging" -> msgs = <<>>
      [] b = "start"   -> ~started /\ w = W("start")
      [] b = "input"   -> started /\ w.name = "chat"
      [] b = "save"    -> TRUE

\* the first block from the i-th on that does something: where the run
\* goes next
Goto(i, w, complete, aar, msgs, started) ==
    Blocks[Min({j \in i..Len(Blocks) :
                  Acts(Blocks[j], w, complete, aar, msgs, started)})]

\* the gate without its once-only flag: the snapshot is loaded in every run
TacticalGate_Reload(w) ==
    /\ authentication_status
    /\ \/ pc = "idle" /\ w \in Available
       \/ pc = "rerun" /\ w = NoWidget
    /\ error' = None
    /\ response_text' = <<>>
    /\ IF active_user # None /\ active_user # username
       THEN \* scrub the theater, keep the authentication keys, rerun
            /\ FreshTheater
            /\ active_user' = username
            /\ pc' = "rerun"
            /\ widget' = NoWidget
       ELSE /\ active_user' = username
            /\ widget' = w
            /\ auto_resume_attempted' = TRUE
            /\ IF db[username].exists
               THEN LET data == db[username].data
                    IN /\ messages' = Get(data, "chat_history", <<>>)
                       /\ locations' = Get(data, "unit_data", <<>>)
                       /\ objectives' = Get(data, "objectives", <<>>)
                       /\ mission_time' = Get(data, "mission_time", 60)
                       /\ mission_started' = TRUE
               ELSE UNCHANGED <<messages, locations, objectives,
                                mission_time, mission_started>>
            /\ pc' = Goto(1, w, mission_complete, aar_report, messages',
                          mission_started')
            /\ UNCHANGED <<chat_session, efficiency_score,
                           discovered_locations, mission_complete,
                           time_elapsed, aar_report>>
    /\ UNCHANGED <<auth, db, turns, held, audit>>

\* lines 526-553: a run of the script, started by a widget of the page or
\* by st.rerun(), passes the identity handshake and the auto-resume gate
\* (load_mission_state)
TacticalGate(w) ==
    /\ authentication_status
    /\ \/ pc = "idle" /\ w \in Available
       \/ pc = "rerun" /\ w = NoWidget
    /\ error' = None
    /\ response_text' = <<>>
    /\ IF active_user # None /\ active_user # username
       THEN \* scrub the theater, keep the authentication keys, rerun
            /\ FreshTheater
            /\ active_user' = username
            /\ pc' = "rerun"
            /\ widget' = NoWidget
       ELSE /\ active_user' = username
            /\ widget' = w
            /\ auto_resume_attempted' = TRUE
            /\ IF ~auto_resume_attempted /\ db[username].exists
               THEN LET data == db[username].data
                    IN /\ messages' = Get(data, "chat_history", <<>>)
                       /\ locations' = Get(data, "unit_data", <<>>)
                       /\ objectives' = Get(data, "objectives", <<>>)
                       /\ mission_time' = Get(data, "mission_time", 60)
                       /\ mission_started' = TRUE
               ELSE UNCHANGED <<messages, locations, objectives,
                                mission_time, mission_started>>
            /\ pc' = Goto(1, w, mission_complete, aar_report, messages',
                          mission_started')
            /\ UNCHANGED <<chat_session, efficiency_score,
                           discovered_locations, mission_complete,
                           time_elapsed, aar_report>>
    /\ UNCHANGED <<auth, db, turns, held, audit>>

\* lines 563-567: the logout widget ends the login; when it reports the
\* click the session is cleared as well
LogoutWidget(cleared) ==
    /\ pc = "sidebar"
    /\ widget = W("logout")
    /\ IF cleared
       THEN ClearSession
       ELSE /\ UNCHANGED widget
            /\ authentication_status' = FALSE
            /\ username' = None
            /\ pc' = Goto(2, widget, mission_complete, aar_report, messages,
                          mission_started)
            /\ UNCHANGED <<active_user, theater>>
    /\ UNCHANGED <<db, response_text, error, turns, held, audit>>

\* lines 572-590: the delete is attempted, its failure is passed over
AbortMission(deleted) ==
    /\ pc = "sidebar"
    /\ widget = W("abort")
    /\ db' = IF deleted THEN [db EXCEPT ![username] = NoDoc] ELSE db
    /\ ClearSession
    /\ held' = IF held.on THEN [held EXCEPT !.last[username] = NoHeld]
               ELSE held
    /\ UNCHANGED <<response_text, error, turns, audit>>

\* lines 622-654: the after-action report of a completed mission
GenerateAAR(out, written) ==
    /\ pc = "main"
    /\ mission_complete /\ ~aar_report
    /\ turns < MaxTurns
    /\ LET r == get_dm_response(S, out)
       IN /\ Commit(r)
          /\ IF r.raised # None
             THEN /\ pc' = "idle"
                  /\ error' = r.raised
                  /\ UNCHANGED <<aar_report, db>>
                  /\ written
             ELSE /\ aar_report' = TRUE
                  /\ IF written
                     THEN /\ db' = [db EXCEPT ![active_user] =
                                      SetMerge(@, [aar_report |-> TRUE])]
                          /\ pc' = Goto(3, widget, mission_complete', TRUE,
                                        messages', mission_started)
                          /\ error' = None
                     ELSE /\ error' = "PersistenceError"
                          /\ pc' = "idle"
                          /\ UNCHANGED db
    /\ widget' = IF pc' = "idle" THEN NoWidget ELSE widget
    /\ UNCHANGED <<auth, active_user, mission_started, auto_resume_attempted,
                   audit>>

\* lines 668-670
Redeploy ==
    /\ pc = "main"
    /\ mission_complete /\ aar_report
    /\ widget = W("redeploy")
    /\ ClearSession
    /\ UNCHANGED <<db, response_text, error, turns, held, audit>>

briefing_msg ==
    [role |-> "assistant", type |-> "dict",
     content |-> [x \in {"AGENCY HQ"} |-> <<"briefing_text">>]]

\* lines 777-795
Staging ==
    /\ pc = "staging"
    /\ messages = <<>>
    /\ messages' = Append(messages, briefing_msg)
    /\ pc' = "rerun"
    /\ widget' = NoWidget
    /\ UNCHANGED <<auth, active_user, auto_resume_attempted, objectives,
                   mission_started, mission_time, chat_session,
                   efficiency_score, locations, discovered_locations,
                   mission_complete, time_elapsed, aar_report, db,
                   response_text, error, turns, held, audit>>

\* lines 798-805
StartOperation(out) ==
    /\ pc = "start"
    /\ ~mission_started
    /\ widget = W("start")
    /\ turns < MaxTurns
    /\ LET r == get_dm_response(S, out)
       IN /\ Commit(r)
          /\ error' = r.raised
          /\ IF r.raised # None
             THEN pc' = "idle" /\ UNCHANGED mission_started
             ELSE pc' = "rerun" /\ mission_started' = TRUE
    /\ widget' = NoWidget
    /\ UNCHANGED <<auth, active_user, auto_resume_attempted, aar_report, db,
                   audit>>

IsValhalla(prompt) == \E i \in 1..Len(prompt) : Upper(prompt[i]) = "VALHALLA"

user_msg(prompt) == [role |-> "user", type |-> "str", content |-> prompt]

\* lines 810-816: the developer backdoor
Valhalla ==
    /\ pc = "input"
    /\ mission_started
    /\ widget.name = "chat" /\ IsValhalla(widget.prompt)
    /\ mission_complete' = TRUE
    /\ time_elapsed' = 60 - mission_time
    /\ pc' = "rerun"
    /\ widget' = NoWidget
    /\ UNCHANGED <<auth, active_user, auto_resume_attempted, objectives,
                   mission_started, mission_time, messages, chat_session,
                   efficiency_score, locations, discovered_locations,
                   aar_report, db, response_text, error, turns, held, audit>>

\* lines 818-823: the normal command flow
Command(out) ==
    /\ pc = "input"
    /\ mission_started
    /\ widget.name = "chat" /\ ~IsValhalla(widget.prompt)
    /\ turns < MaxTurns
    /\ LET r == get_dm_response(
                  [S EXCEPT !.mission_time = @ - 1,
                            !.messages = Append(@, user_msg(widget.prompt))],
                  out)
       IN /\ Commit(r)
          /\ error' = r.raised
          /\ pc' = IF r.raised # None THEN "idle" ELSE "rerun"
    /\ widget' = NoWidget
    /\ UNCHANGED <<auth, active_user, auto_resume_attempted, mission_started,
                   aar_report, db, audit>>

\* the save when the document id leaves the username out: one document,
\* seen under every identity
SaveAtEnd_Shared(written) ==
    /\ pc = "save"
    /\ pc' = "idle"
    /\ IF authentication_status /\ mission_started
       THEN IF written
            THEN /\ db' = [u \in Users |-> SetMerge(db[u], save_data)]
                 /\ UNCHANGED error
            ELSE /\ error' = "PersistenceError"
                 /\ UNCHANGED db
       ELSE written /\ UNCHANGED <<db, error>>
    /\ widget' = NoWidget
    /\ UNCHANGED <<auth, active_user, theater, response_text, turns, held,
                   audit>>

\* lines 827-830 with save_mission_state
SaveAtEnd(written) ==
    /\ pc = "save"
    /\ pc' = "idle"
    /\ IF authentication_status /\ mission_started
       THEN IF written
            THEN /\ db' = [db EXCEPT ![username] = SetMerge(@, save_data)]
                 /\ UNCHANGED error
            ELSE /\ error' = "PersistenceError"
                 /\ UNCHANGED db
       ELSE written /\ UNCHANGED <<db, error>>
    /\ widget' = NoWidget
    /\ UNCHANGED <<auth, active_user, theater, response_text, turns, held,
                   audit>>

Next ==
    \/ \E u \in Users : Login(u)
    \/ \E w \in Widgets : TacticalGate(w)
    \/ \E cleared \in BOOLEAN : LogoutWidget(cleared)
    \/ \E deleted \in BOOLEAN : AbortMission(deleted)
    \/ \E out \in Outcomes, written \in BOOLEAN : GenerateAAR(out, written)
    \/ Redeploy
    \/ Staging
    \/ \E out \in Outcomes : StartOperation(out)
    \/ Valhalla
    \/ \E out \in Outcomes : Command(out)
    \/ \E written \in BOOLEAN : SaveAtEnd(written)

Spec == Init /\ [][Next]_vars

\* ---------------------------------------------------------------- claims
\* a step that made a model call, and one in which the reply arrived
TurnStep == turns' = turns + 1
Replied == TurnStep /\ error' # "BackendError"

\* a step that keeps the session: only the clearing of the session and the
\* identity scrub take auto_resume_attempted back
SameSession == ~(auto_resume_attempted /\ ~auto_resume_attempted')

\* the objective ids a text asserts with =TRUE
Asserted(text) == {ObjFindAll(text)[i] : i \in 1..Len(ObjFindAll(text))}

IsRecon(m, pid) ==
    /\ m.role = "assistant"
    /\ m.type = "str"
    /\ m.content = recon_msg(MISSION_DATA[pid].name).content

Recons(msgs, pid) == {i \in 1..Len(msgs) : IsRecon(msgs[i], pid)}

IsSquad(m) == "raw_text" \in DOMAIN m

\* C1: within a session an objective flag that is true stays true in every
\* step, whatever the reply holds: a =FALSE tag, a repeated =TRUE tag or no
\* tag.
C1_LedgerMonotonic ==
    [][SameSession =>
         \A o \in DOMAIN objectives :
            objectives[o] => (o \in DOMAIN objectives' /\ objectives'[o])]_vars

\* C1 witness: obj_a is true after a turn whose reply carried
\* [OBJ_DATA: obj_a=FALSE], so it was set by an earlier turn
C1_Witness ==
    /\ response_text = RFalse
    /\ error = None
    /\ objectives["obj_a"]

\* C2: every reply that asserts [OBJ_DATA: id=TRUE] for a ledger id leaves
\* that flag true, and the efficiency score rises by exactly 150 for each
\* flag that was false before and by nothing for a flag already true.
C2_IdempotentTags ==
    [][Replied =>
         LET A == Asserted(response_text') \cap DOMAIN objectives
         IN /\ \A o \in A : objectives'[o]
            /\ efficiency_score' = efficiency_score
                   + 150 * Cardinality({o \in A : ~objectives[o]})]_vars

\* C3: a reply whose OBJ_DATA tags name only ids outside the ledger leaves
\* the key set, the values and the efficiency score as they were, and the
\* turn ends without an exception.
C3_UnknownIdSafe ==
    [][(/\ Replied
        /\ Asserted(response_text') # {}
        /\ Asserted(response_text') \cap DOMAIN objectives = {})
       => /\ objectives' = objectives
          /\ efficiency_score' = efficiency_score
          /\ error' # "ValueError"]_vars

\* C4: the log never holds two recon reports for one point of interest and
\* the discovered list never holds one twice.
C4_DiscoveryOnce ==
    /\ \A pid \in DOMAIN MISSION_DATA : Cardinality(Recons(messages, pid)) <= 1
    /\ \A i, j \in 1..Len(discovered_locations) :
          discovered_locations[i] = discovered_locations[j] => i = j

\* C5: every reply that holds the trigger phrase, in any case, sets the
\* terminal flag, whatever the ledger holds.
C5_TriggerTerminates ==
    [][(Replied /\ HasTrigger(response_text')) => mission_complete']_vars

\* does the text hold the name of a suffix tag
HasTag(text) == \E i \in 1..Len(text) : text[i] \in {"LOC_DATA", "OBJ_DATA"}

\* does the text hold a bracketed LOC_DATA or OBJ_DATA tag
HasBracketedTag(text) ==
    \E i, j \in 1..Len(text) :
        /\ j > i + 2
        /\ text[i] = "[" /\ text[i + 1] \in {"LOC_DATA", "OBJ_DATA"}
        /\ text[i + 2] = ":" /\ text[j] = "]"

\* the points of interest an agent stands on that are not discovered yet
Undiscovered ==
    {pid \in DOMAIN MISSION_DATA :
        /\ \E u \in DOMAIN locations : locations[u] = MISSION_DATA[pid].name
        /\ ~InSeq(pid, discovered_locations)}

Range(q) == {q[i] : i \in 1..Len(q)}

\* C6 as stated: a turn whose reply holds no LOC_DATA block and no OBJ_DATA
\* tag leaves the locations, the ledger, the discovered list and the
\* efficiency score as they were and adds no recon report.
C6_NoTagNoMutation ==
    [][(Replied /\ ~HasTag(response_text')) =>
         /\ locations' = locations
         /\ objectives' = objectives
         /\ efficiency_score' = efficiency_score
         /\ discovered_locations' = discovered_locations
         /\ \A pid \in DOMAIN MISSION_DATA :
               Recons(messages', pid) = Recons(messages, pid)]_vars

\* C6 amended: such a turn leaves the locations, the ledger and the
\* efficiency score as they were; it appends to the discovered list exactly
\* the points of interest an agent already stands on that are not in the
\* list, each once, and adds one recon report for each of them and for no
\* other.
C6_NoTagOnlyDiscovers ==
    [][(Replied /\ ~HasTag(response_text')) =>
         /\ locations' = locations
         /\ objectives' = objectives
         /\ efficiency_score' = efficiency_score
         /\ Len(discovered_locations') =
               Len(discovered_locations) + Cardinality(Undiscovered)
         /\ SubSeq(discovered_locations', 1, Len(discovered_locations))
               = discovered_locations
         /\ Range(discovered_locations')
               = Range(discovered_locations) \cup Undiscovered
         /\ \A pid \in DOMAIN MISSION_DATA :
               Cardinality(Recons(messages', pid)) =
                  Cardinality(Recons(messages, pid))
                     + (IF pid \in Undiscovered THEN 1 ELSE 0)]_vars

\* C6 witness: the only turn so far had a reply without tags and it
\* discovered the insertion point
C6_Witness ==
    /\ turns = 1
    /\ response_text = RPlain
    /\ error = None
    /\ discovered_locations = <<"insertion_point">>

\* every pair of the matched block unpacks into a unit and a location
LocWellFormed(text) ==
    LET pairs == Split(LocSearch(text), <<",", " ">>)
    IN LocSearch(text) = <<>>
          \/ \A i \in 1..Len(pairs) : Len(Split(pairs[i], <<"=">>)) = 2

\* C7: no reply makes the turn raise, and a location block that does not
\* parse in full changes no location.
C7_MalformedTagsSafe ==
    [][Replied =>
         /\ error' # "ValueError"
         /\ ~LocWellFormed(response_text') => locations' = locations]_vars

\* C8: when the model call of an operator command fails, the session is as
\* it was before the command was submitted.
C8_BackendFailureAtomic ==
    [][(pc = "input" /\ TurnStep /\ error' = "BackendError") =>
         /\ mission_time' = mission_time
         /\ messages' = messages
         /\ locations' = locations
         /\ objectives' = objectives
         /\ discovered_locations' = discovered_locations
         /\ efficiency_score' = efficiency_score
         /\ mission_complete' = mission_complete]_vars

\* C9: the keys of the location map are SAM, DAVE and MIKE in every state.
C9_AgentKeysFixed == DOMAIN locations = {SAM, DAVE, MIKE}

\* C10: no display text in the log holds a bracketed LOC_DATA or OBJ_DATA
\* tag, and the raw text of the example is displayed as "SAM: Hi" with the
\* split {SAM: "Hi"}.
C10_TagsStripped ==
    /\ \A i \in 1..Len(messages) :
          IsSquad(messages[i]) => ~HasBracketedTag(messages[i].raw_text)
    /\ (response_text = RExample /\ error = None) =>
          /\ messages[Len(messages)].raw_text = Hi
          /\ messages[Len(messages)].content = [x \in {"SAM"} |-> <<"Hi">>]

\* ------------------------------------------------- claims on persistence
\* the same program with the history of completed turns kept, over a store
\* whose writes and deletes all succeed
InitHistory == Boot([u \in Users |-> NoDoc], History(TRUE))

NextStored ==
    \/ \E u \in Users : Login(u)
    \/ \E w \in Widgets : TacticalGate(w)
    \/ \E cleared \in BOOLEAN : LogoutWidget(cleared)
    \/ AbortMission(TRUE)
    \/ \E out \in Outcomes : GenerateAAR(out, TRUE)
    \/ Redeploy
    \/ Staging
    \/ \E out \in Outcomes : StartOperation(out)
    \/ Valhalla
    \/ \E out \in Outcomes : Command(out)
    \/ SaveAtEnd(TRUE)

SpecHistory == InitHistory /\ [][NextStored]_vars

\* the step of a run in which the auto-resume gate is passed for the first
\* time in a session (load_mission_state is called)
LoadStep ==
    /\ authentication_status
    /\ pc \in {"idle", "rerun"}
    /\ ~auto_resume_attempted
    /\ auto_resume_attempted'

\* C11: when a session starts for an identity whose earlier session has
\* completed a turn, and no abort came in between, the session resumes with
\* the dialogue log, the locations, the ledger and the clock that the
\* earlier session held after its last completed turn.
C11_SnapshotRoundTrip ==
    [][(LoadStep /\ held.last[username].turned) =>
         LET h == held.last[username].data
         IN /\ messages' = h.messages
            /\ locations' = h.locations
            /\ objectives' = h.objectives
            /\ mission_time' = h.mission_time]_vars

\* a step that writes the store from the session (the save at the end of a
\* run, or the write of the after-action report)
WriteStep == pc \in {"save", "main"} /\ db' # db

\* C12: a turn or a write of the store happens only in a session whose
\* auto-resume load has been attempted, and once it has been attempted no
\* later pass of the gate in that session loads again: the gate leaves the
\* log, the locations, the ledger, the clock and the started flag alone.
C12_ResumeOnceFirst ==
    [][/\ (TurnStep \/ WriteStep) => auto_resume_attempted
       /\ (pc \in {"idle", "rerun"} /\ auto_resume_attempted
              /\ auto_resume_attempted')
            => UNCHANGED <<messages, locations, objectives, mission_time,
                           mission_started>>]_vars

\* C12 witness: a session that resumed a snapshot (its log already held
\* the recon report of the insertion point) and then carried a turn
C12_Witness ==
    /\ authentication_status
    /\ auto_resume_attempted
    /\ turns = 2
    /\ error = None
    /\ Cardinality(Recons(messages, "insertion_point")) = 2

\* the authenticated identity is not the one the session belongs to
Mismatch ==
    /\ authentication_status
    /\ active_user # None
    /\ active_user # username

\* every session field has its initial value
FreshSession ==
    /\ objectives = InitialObjectives
    /\ ~mission_started
    /\ mission_time = 60
    /\ messages = <<>>
    /\ chat_session = None
    /\ efficiency_score = 1000
    /\ locations = InitialLocations
    /\ discovered_locations = <<>>
    /\ ~mission_complete
    /\ time_elapsed = 0
    /\ ~aar_report
    /\ ~auto_resume_attempted

\* C13: when the authenticated identity differs from the session's active
\* user, the next step discards every session field, keeps the
\* authentication keys, makes no model call and writes nothing; and a
\* snapshot is only ever written under the key of the session's active
\* user.
C13_IdentitySwitchFresh ==
    [][/\ Mismatch =>
            /\ FreshSession'
            /\ active_user' = username
            /\ UNCHANGED <<authentication_status, username, db, turns>>
       /\ \A u \in Users :
            (db'[u] # db[u] /\ db'[u].exists) => u = active_user]_vars

\* C13 witness: the scrub has just run for a new identity while the store
\* holds the snapshot of another identity, written by the session before
C13_Witness ==
    /\ authentication_status
    /\ pc = "rerun"
    /\ active_user = username
    /\ ~auto_resume_attempted
    /\ FreshSession
    /\ \E u \in Users \ {username} : db[u].exists

RECURSIVE Played(_)
Played(n) ==
    IF n = 0
    THEN <<briefing_msg, recon_msg(InsertionPoint),
           squad_msg(CleanResponse(RPlain))>>
    ELSE Played(n - 1) \o <<user_msg(<<"go">>),
                            squad_msg(CleanResponse(RPlain))>>

\* the snapshot save_mission_state wrote after the last of them
Snapshot(n) ==
    [username |-> "peter", mission_id |-> "panama",
     chat_history |-> Played(n), unit_data |-> InitialLocations,
     objectives |-> InitialObjectives, mission_time |-> 60 - n]

\* the program started over such a store: peter left after the start turn,
\* or after sixty commands
InitResumed ==
    \E n \in {0, 60} :
        Boot([u \in Users |->
                IF u = "peter" THEN [exists |-> TRUE, data |-> Snapshot(n)]
                ELSE NoDoc],
             History(FALSE))

SpecResumed == InitResumed /\ [][Next]_vars

\* C15: once the terminal flag is set, every step of the session keeps it
\* set and leaves the recorded elapsed time as it is.
C15_TerminationFreezes ==
    [][(mission_complete /\ SameSession) =>
         /\ mission_complete'
         /\ time_elapsed' = time_elapsed]_vars

\* C16: the clock is in 0..60 in every state, no step of a session raises
\* it, and every operator command that is processed lowers it by exactly
\* one.
C16_ClockBounds ==
    [][/\ mission_time \in 0..60
       /\ mission_time' \in 0..60
       /\ SameSession => mission_time' <= mission_time
       /\ (pc = "input" /\ TurnStep) => mission_time' = mission_time - 1]_vars

\* ------------------------------------------- claims on the model calls
\* C17: no model call is made on a chat whose system instruction was not
\* delivered, and a chat that has received it is kept for the rest of the
\* session's calls, so the instruction is not sent a second time.
C17_SystemInstructionFirst ==
    [][TurnStep =>
         /\ chat_session # "NoSysInstr"
         /\ chat_session = "Ready" => chat_session' = "Ready"]_vars

\* C18: the save at the end of a run never ends the run with an error, and
\* it leaves the session as the run produced it.
C18_WriteFailureSwallowed ==
    [][pc = "save" =>
         /\ error' # "PersistenceError"
         /\ UNCHANGED theater]_vars

\* ------------------------------------------------ the audit variant
\* [SCORE: v]: the stored readiness score of the active criterion group
\* when the tag adds to it
ProportionalUpdate_Accumulate(stored, v) == stored + v

\* [SCORE: v]: the value replaces the stored readiness score
ProportionalUpdate(stored, v) == v

\* a response tag [SCORE: v] is processed for the criterion group g
ScoreTag(g, v) ==
    /\ audit' = [scores |-> [audit.scores EXCEPT
                                ![g] = ProportionalUpdate(@, v)],
                 tag |-> [group |-> g, value |-> v,
                          prior |-> audit.scores[g]]]
    /\ UNCHANGED <<auth, active_user, theater, db, pc, widget, response_text,
                   error, turns, held>>

NextAudit == \E g \in Groups, v \in Scores : ScoreTag(g, v)

SpecAudit == Init /\ [][NextAudit]_vars

\* C19: after a tag [SCORE: v] with v in 0.0..1.0 has been processed for a
\* criterion group, the stored score of the group is exactly v, whatever
\* the score stored before.
C19_ScoreReplaces ==
    audit.tag.group # None =>
        audit.scores[audit.tag.group] = audit.tag.value

\* C19 witness: the stored score was 0.4, the tag carried 0.7 and the
\* stored score is 0.7
C19_Witness ==
    /\ audit.tag = [group |-> "csf_1", value |-> 7, prior |-> 4]
    /\ audit.scores["csf_1"] = 7

\* ------------------------------------------- claims on ending a mission
\* the step of ABORT MISSION (RESET), and of REDEPLOY (NEW MISSION) on a
\* completed mission
EndsMission ==
    \/ pc = "sidebar" /\ widget = W("abort")
    \/ pc = "main" /\ widget = W("redeploy") /\ mission_complete
          /\ aar_report

\* C20: abort and redeploy leave no snapshot of the identity behind, so
\* that the gate of the identity's next session finds nothing to resume
\* and the session keeps its fresh initial state.
C20_EndedForGood ==
    [][EndsMission => ~db'[username].exists]_vars

\* ---------------------------------------------- claims on the dialogue log
\* the entries a step appends to the log
Appended == SubSeq(messages', Len(messages) + 1, Len(messages'))

\* C21: every step of a session keeps the entries of the log at their
\* positions and only appends; and a command turn whose reply arrived
\* appends the operator's command, then one recon report for each point of
\* interest the turn discovers, in the order of discovery, then exactly one
\* squad-dialogue entry.
C21_LogAppendOnly ==
    [][/\ SameSession =>
            /\ Len(messages') >= Len(messages)
            /\ SubSeq(messages', 1, Len(messages)) = messages
       /\ (pc = "input" /\ Replied) =>
            LET new == Appended
                n == Len(discovered_locations') - Len(discovered_locations)
            IN /\ Len(new) = n + 2
               /\ new[1] = user_msg(widget.prompt)
               /\ \A i \in 1..n :
                     IsRecon(new[i + 1],
                             discovered_locations'[Len(discovered_locations) + i])
               /\ IsSquad(new[Len(new)])]_vars

====
